---- MODULE Spec2Model ----
(***************************************************************************)
(* Model of lieu's matching engine (lib/lieu/dedupe.py): AddressDeduper,   *)
(* NameDeduper and VenueDeduper.                                           *)
(*                                                                         *)
(* Every operation of the module is a pure class method.  The state holds  *)
(* the arguments of a call (drawn by the initial condition), the operation *)
(* that has been applied last (pc) and the value it returned.              *)
(* near_dupe_hashes is a generator: a call only makes the generator        *)
(* object, its body runs between one next() and the following yield.       *)
(*                                                                         *)
(* Python values:                                                          *)
(*   - a unicode string is a sequence of one-character strings;            *)
(*   - an address record is a function from the keys it holds to values,   *)
(*     dict.get(key) of a key outside its domain is None;                  *)
(*   - True / False / None as returned by the decision methods are the     *)
(*     strings "True", "False", "None" (a decision is three-valued);       *)
(*   - a coordinate is an integer number of the finest geohash steps, see  *)
(*     the geohash section.                                                *)
(***************************************************************************)
EXTENDS Integers, Sequences, FiniteSets, TLC

VARIABLES
    a1,                     \* first address record
    a2,                     \* second address record
    with_unit,              \* the with_unit argument of is_dupe
    tfidf,                  \* the tfidf argument: <<>> for None, else <<sim>>, a
                            \* model under which the two names' soft-TFIDF
                            \* similarity is sim hundredths
    precision,              \* <<>> or <<p>>: the geohash_precision argument, if given
    cls,                    \* the class near_dupe_hashes is called on
    s,                      \* the string given to content_tokens
    ignore_parentheticals,  \* NameDeduper.ignore_parentheticals
    pc,                     \* the operation applied last, "start" before any
    ret,                    \* the decision returned ("True", "False", "None")
    gen1,                   \* the generator near_dupe_hashes(a1): "none" before
                            \* the call, then "created", "suspended", "closed"
    gen2,                   \* the generator near_dupe_hashes(a2), likewise
    keys1,                  \* the keys near_dupe_hashes(a1) has yielded, in order
    keys2,                  \* the keys near_dupe_hashes(a2) has yielded, in order
    pending1,               \* the frame of the suspended generator of a1: the
                            \* keys of the product not yet yielded
    pending2,               \* the frame of the suspended generator of a2
    tokens                  \* what content_tokens(s) returned

vars == <<a1, a2, with_unit, tfidf, precision, cls, s,
          ignore_parentheticals, pc, ret, gen1, gen2, keys1, keys2,
          pending1, pending2, tokens>>

inputs == <<a1, a2, with_unit, tfidf, precision, cls, s,
            ignore_parentheticals>>

generators == <<gen1, gen2, keys1, keys2, pending1, pending2>>

(***************************************************************************)
(* Strings                                                                 *)
(***************************************************************************)

\* Characters.  A character is a string: a printable ASCII character, tab,
\* newline, carriage return and form feed are themselves; any other is
\* named by its escape ("\\x0b" is the vertical tab, "\\xc9" is E acute,
\* "\\u3000" the ideographic space).  The strings of the model are over
\* Latin-1 (U+0000 to U+00FF), the whitespace characters beyond it and
\* U+0130.

\* What whitespace_regex ('[\s]+') and str.split() treat as whitespace in
\* a unicode string.
Whitespace == {"\t", "\n", "\\x0b", "\f", "\r", "\\x1c", "\\x1d", "\\x1e",
               "\\x1f", " ", "\\x85", "\\xa0", "\\u1680", "\\u2000", "\\u2001", "\\u2002",
               "\\u2003", "\\u2004", "\\u2005", "\\u2006", "\\u2007", "\\u2008", "\\u2009", "\\u200a",
               "\\u2028", "\\u2029", "\\u202f", "\\u205f", "\\u3000"}

UpperCase == <<"A","B","C","D","E","F","G","H","I","J","K","L","M",
               "N","O","P","Q","R","S","T","U","V","W","X","Y","Z">>

LowerCase == <<"a","b","c","d","e","f","g","h","i","j","k","l","m",
               "n","o","p","q","r","s","t","u","v","w","x","y","z">>

\* The capitals of Latin-1 beyond ASCII and their lower-case characters.
Latin1UpperCase == <<"\\xc0", "\\xc1", "\\xc2", "\\xc3", "\\xc4", "\\xc5", "\\xc6", "\\xc7",
                    "\\xc8", "\\xc9", "\\xca", "\\xcb", "\\xcc", "\\xcd", "\\xce", "\\xcf",
                    "\\xd0", "\\xd1", "\\xd2", "\\xd3", "\\xd4", "\\xd5", "\\xd6", "\\xd8",
                    "\\xd9", "\\xda", "\\xdb", "\\xdc", "\\xdd", "\\xde">>

Latin1LowerCase == <<"\\xe0", "\\xe1", "\\xe2", "\\xe3", "\\xe4", "\\xe5", "\\xe6", "\\xe7",
                    "\\xe8", "\\xe9", "\\xea", "\\xeb", "\\xec", "\\xed", "\\xee", "\\xef",
                    "\\xf0", "\\xf1", "\\xf2", "\\xf3", "\\xf4", "\\xf5", "\\xf6", "\\xf8",
                    "\\xf9", "\\xfa", "\\xfb", "\\xfc", "\\xfd", "\\xfe">>

\* c.lower() of one character: a string, of two characters for U+0130.
LowerChar(c) ==
    IF \E i \in DOMAIN UpperCase : UpperCase[i] = c
    THEN <<LowerCase[CHOOSE i \in DOMAIN UpperCase : UpperCase[i] = c]>>
    ELSE IF \E i \in DOMAIN Latin1UpperCase : Latin1UpperCase[i] = c
    THEN <<Latin1LowerCase[CHOOSE i \in DOMAIN Latin1UpperCase : Latin1UpperCase[i] = c]>>
    ELSE IF c = "\\u0130" THEN <<"i", "\\u0307">>
    ELSE <<c>>

RECURSIVE Lower(_)
\* str.lower()
Lower(str) == IF str = <<>> THEN <<>> ELSE LowerChar(Head(str)) \o Lower(Tail(str))

\* whitespace_regex.sub(u'', e)
StripWhitespace(e) == SelectSeq(e, LAMBDA c : c \notin Whitespace)

RECURSIVE SplitFrom(_, _, _)
\* Tokens of str from position i on; cur is the token being read.
SplitFrom(str, i, cur) ==
    IF i > Len(str)
    THEN IF cur = <<>> THEN <<>> ELSE <<cur>>
    ELSE IF str[i] \in Whitespace
         THEN IF cur = <<>>
              THEN SplitFrom(str, i + 1, <<>>)
              ELSE <<cur>> \o SplitFrom(str, i + 1, <<>>)
         ELSE SplitFrom(str, i + 1, Append(cur, str[i]))

\* NameDeduper.tokenize: s.split()
tokenize(str) == SplitFrom(str, 1, <<>>)

RECURSIVE Join(_, _)
\* sep.join(parts)
Join(sep, parts) ==
    IF parts = <<>> THEN <<>>
    ELSE IF Len(parts) = 1 THEN parts[1]
    ELSE parts[1] \o sep \o Join(sep, Tail(parts))

\* The elements of a sequence, as a set.
Range(seq) == {seq[i] : i \in DOMAIN seq}

(***************************************************************************)
(* Address records                                                         *)
(***************************************************************************)

NAME == "name"
HOUSE_NUMBER == "house_number"
STREET == "street"
UNIT == "unit"
FLOOR == "floor"
LATITUDE == "latitude"
LONGITUDE == "longitude"

\* a.get(key) is None
IsNone(a, key) == key \notin DOMAIN a

\* not a.get(key): the key is missing or its value is the empty string
Not(a, key) == IsNone(a, key) \/ a[key] = <<>>

\* A record without any key, and records of one key.
NoFields == [k \in {} |-> <<>>]

Field(key, values) == {NoFields} \cup {key :> v : v \in values}

(***************************************************************************)
(* The Expander (postal.expand.expand_address).  It lower-cases the value, *)
(* normalizes the whitespace between its tokens and, for every token the   *)
(* component's dictionary knows, also gives the form with the token        *)
(* replaced by its canonical form.                                         *)
(***************************************************************************)

ADDRESS_NAME == "ADDRESS_NAME"
ADDRESS_STREET == "ADDRESS_STREET"
ADDRESS_UNIT == "ADDRESS_UNIT"
ADDRESS_LEVEL == "ADDRESS_LEVEL"
ADDRESS_HOUSE_NUMBER == "ADDRESS_HOUSE_NUMBER"

Canonical(component, token) ==
    IF component = ADDRESS_STREET /\ token = <<"s","t">>
        THEN <<"s","t","r","e","e","t">>
    ELSE IF component = ADDRESS_NAME /\ token = <<"s","t">>
        THEN <<"s","a","i","n","t">>
    ELSE IF component = ADDRESS_UNIT /\ token = <<"a","p","t">>
        THEN <<"a","p","a","r","t","m","e","n","t">>
    ELSE IF component = ADDRESS_LEVEL /\ token = <<"f","l">>
        THEN <<"f","l","o","o","r">>
    ELSE token

expand_address(value, component) ==
    LET toks == tokenize(Lower(value))
        plain == Join(<<" ">>, toks)
        canon == Join(<<" ">>, [i \in DOMAIN toks |-> Canonical(component, toks[i])])
    IN  IF canon = plain THEN <<plain>> ELSE <<plain, canon>>

(***************************************************************************)
(* AddressDeduper: the pairwise decisions                                  *)
(***************************************************************************)

PyBool(b) == IF b THEN "True" ELSE "False"

\* x and y, for a three-valued x and a boolean y
PyAnd(x, y) == IF x = "True" THEN PyBool(y) ELSE x

component_equals_ws(c1, c2, component, no_whitespace) ==
    LET expansions1 == expand_address(c1, component)
        expansions2 == expand_address(c2, component)
        set_expansions1 == IF ~no_whitespace
                           THEN Range(expansions1)
                           ELSE {StripWhitespace(e1) : e1 \in Range(expansions1)}
        set_expansions2 == IF ~no_whitespace
                           THEN Range(expansions2)
                           ELSE {StripWhitespace(e2) : e2 \in Range(expansions2)}
    IN  Cardinality(set_expansions1 \cap set_expansions2) > 0

\* component_equals with no_whitespace at its default, True
component_equals(c1, c2, component) == component_equals_ws(c1, c2, component, TRUE)

is_address_dupe_street_only(r1, r2) ==
    IF Not(r1, STREET) \/ Not(r2, STREET)
    THEN "None"
    ELSE PyBool(component_equals(r1[STREET], r2[STREET], ADDRESS_STREET))

is_address_dupe(r1, r2) ==
    IF Not(r1, STREET) \/ Not(r2, STREET)
       \/ Not(r1, HOUSE_NUMBER) \/ Not(r2, HOUSE_NUMBER)
    THEN "None"
    ELSE LET same_street ==
                 component_equals(r1[STREET], r2[STREET], ADDRESS_STREET)
             same_house_number ==
                 component_equals(r1[HOUSE_NUMBER], r2[HOUSE_NUMBER], ADDRESS_HOUSE_NUMBER)
         IN  PyBool(same_street /\ same_house_number)

\* One round of the loop of is_sub_building_dupe: "pass" when the loop goes
\* on to the next field, "False" when it returns False.
SubBuildingField(r1, r2, key, component) ==
    IF ~Not(r1, key) /\ ~Not(r2, key)
    THEN IF ~component_equals(r1[key], r2[key], component) THEN "False" ELSE "pass"
    ELSE IF ~Not(r1, key) \/ ~Not(r2, key) THEN "False" ELSE "pass"

is_sub_building_dupe_one_sided(r1, r2) ==
    \A kc \in {<<UNIT, ADDRESS_UNIT>>, <<FLOOR, ADDRESS_LEVEL>>} :
        ~Not(r1, kc[1]) /\ ~Not(r2, kc[1])
            => component_equals(r1[kc[1]], r2[kc[1]], kc[2])

is_sub_building_dupe(r1, r2) ==
    IF SubBuildingField(r1, r2, UNIT, ADDRESS_UNIT) = "False" THEN FALSE
    ELSE IF SubBuildingField(r1, r2, FLOOR, ADDRESS_LEVEL) = "False" THEN FALSE
    ELSE TRUE

AddressDeduper_is_dupe_always_unit(r1, r2, wu) ==
    PyAnd(is_address_dupe(r1, r2), is_sub_building_dupe(r1, r2))

AddressDeduper_is_dupe(r1, r2, wu) ==
    PyAnd(is_address_dupe(r1, r2), ~wu \/ is_sub_building_dupe(r1, r2))

(***************************************************************************)
(* The GeoHasher (python-geohash).  geohash.encode(lat, lon) gives 12      *)
(* base-32 characters, that is 60 bits, 30 of the longitude interleaved    *)
(* with 30 of the latitude, the longitude first.  A coordinate of the      *)
(* model counts the finest steps of that grid: latitude l stands for       *)
(* l * 180 / 2^30 degrees and longitude l for l * 360 / 2^30 degrees, so   *)
(* 90 degrees of latitude is Lat90 and the point (0, 0) is <<0, 0>>.       *)
(***************************************************************************)

Base32 == <<"0","1","2","3","4","5","6","7","8","9","b","c","d","e","f","g",
            "h","j","k","m","n","p","q","r","s","t","u","v","w","x","y","z">>

Pow2(n) == 2 ^ n

\* 90.0 degrees of latitude (and 180.0 degrees of longitude)
Lat90 == Pow2(29)

\* Bits of latitude and of longitude in a cell id of p characters.
LatLength(p) == (5 * p) \div 2

LonLength(p) == 5 * p - LatLength(p)

\* Bit m (1 is the most significant) of a number of len bits.
Bit(idx, len, m) == (idx \div Pow2(len - m)) % 2

\* Bit k of the interleaved stream of a cell of p characters.
StreamBit(lat, lon, p, k) ==
    IF k % 2 = 1
    THEN Bit(lon, LonLength(p), (k + 1) \div 2)
    ELSE Bit(lat, LatLength(p), k \div 2)

\* _encode_i2c: the cell id of the cell of row lat and column lon; the
\* column wraps around the antimeridian (only its low bits are read).
encode_i2c(lat, lon, p) ==
    LET o == lon % Pow2(LonLength(p))
    IN  [j \in 1..p |->
            Base32[1 + 16 * StreamBit(lat, o, p, 5 * j - 4)
                     +  8 * StreamBit(lat, o, p, 5 * j - 3)
                     +  4 * StreamBit(lat, o, p, 5 * j - 2)
                     +  2 * StreamBit(lat, o, p, 5 * j - 1)
                     +      StreamBit(lat, o, p, 5 * j)]]

\* geohash.encode(lat, lon), precision 12
geohash_encode(lat, lon) == encode_i2c(lat + Lat90, lon + Lat90, 12)

DigitOf(c) == CHOOSE d \in 0..31 : Base32[d + 1] = c

\* Bit k of the interleaved stream a cell id spells.
CellBit(geo, k) == (DigitOf(geo[((k - 1) \div 5) + 1]) \div Pow2(4 - ((k - 1) % 5))) % 2

RECURSIVE CellInt(_, _, _, _)
\* The number spelled by the first n bits of one parity (1: longitude,
\* 0: latitude) of a cell id.
CellInt(geo, parity, n, acc) ==
    IF n = 0 THEN acc
    ELSE CellInt(geo, parity, n - 1, acc) * 2
         + CellBit(geo, IF parity = 1 THEN 2 * n - 1 ELSE 2 * n)

\* _decode_c2i: row and column of a cell
CellLat(geo) == CellInt(geo, 0, LatLength(Len(geo)), 0)

CellLon(geo) == CellInt(geo, 1, LonLength(Len(geo)), 0)

\* geohash.neighbors(geo): west and east, then the row to the north unless
\* geo touches the pole, then the row to the south likewise.
neighbors(geo) ==
    LET p == Len(geo)
        lat == CellLat(geo)
        lon == CellLon(geo)
        row(tlat) == <<encode_i2c(tlat, lon - 1, p), encode_i2c(tlat, lon, p),
                       encode_i2c(tlat, lon + 1, p)>>
    IN  <<encode_i2c(lat, lon - 1, p), encode_i2c(lat, lon + 1, p)>>
        \o (IF lat + 1 < Pow2(LatLength(p)) THEN row(lat + 1) ELSE <<>>)
        \o (IF lat - 1 >= 0 THEN row(lat - 1) ELSE <<>>)

\* lieu.floats.isclose(a, b) at its default tolerances
isclose(a, b) == a = b

(***************************************************************************)
(* The PhoneticEncoder (fuzzy.DMetaphone): the codes of a token that are   *)
(* not None.  A token without a letter has no code.                        *)
(***************************************************************************)

Vowels == {"a", "e", "i", "o", "u", "y"}

Sound(c) ==
    IF c \in {"c", "k", "q"} THEN "K"
    ELSE IF c \in {"s", "z"} THEN "S"
    ELSE IF c \in {"f", "v"} THEN "F"
    ELSE IF c \in {"b", "p"} THEN "P"
    ELSE IF c \in {"d", "t"} THEN "T"
    ELSE UpperCase[CHOOSE i \in DOMAIN LowerCase : LowerCase[i] = c]

double_metaphone(t) ==
    LET letters == SelectSeq(Lower(t), LAMBDA c : c \in Range(LowerCase))
        consonants == SelectSeq(letters, LAMBDA c : c \notin Vowels)
        code == (IF letters # <<>> /\ letters[1] \in Vowels THEN <<"A">> ELSE <<>>)
                \o [i \in DOMAIN consonants |-> Sound(consonants[i])]
    IN  IF letters = <<>> THEN {} ELSE {code}

(***************************************************************************)
(* Blocking keys                                                           *)
(***************************************************************************)

AddressDeduper_DEFAULT_GEOHASH_PRECISION == 7

VenueDeduper_DEFAULT_GEOHASH_PRECISION == 6

\* The default of near_dupe_hashes' geohash_precision parameter.  The def
\* statement is in the body of AddressDeduper and evaluates the name
\* DEFAULT_GEOHASH_PRECISION there, once; VenueDeduper inherits the method.
near_dupe_hashes_defaults(c) == AddressDeduper_DEFAULT_GEOHASH_PRECISION

AddressDeduper_component_expansions(address) ==
    IF ~(~Not(address, STREET) /\ ~Not(address, HOUSE_NUMBER))
    THEN <<>>
    ELSE <<expand_address(address[STREET], ADDRESS_STREET),
           expand_address(address[HOUSE_NUMBER], ADDRESS_HOUSE_NUMBER)>>

\* VenueDeduper.name_word_hashes
name_word_hashes(name) ==
    UNION { UNION { IF double_metaphone(t) # {} THEN double_metaphone(t) ELSE {t}
                    : t \in Range(tokenize(n)) }
            : n \in Range(expand_address(name, ADDRESS_NAME)) }

\* list(name_expanded_words): the orders a set may be listed in
Listings(set) == {l \in [1..Cardinality(set) -> set] : Range(l) = set}

\* The listings of the name words of a record: the list is made after the
\* name, the street and the house number were found present (one empty
\* listing when the method does not get that far).
NameListings(c, address) ==
    IF c = "VenueDeduper" /\ ~Not(address, NAME)
       /\ AddressDeduper_component_expansions(address) # <<>>
    THEN Listings(name_word_hashes(address[NAME]))
    ELSE {<<>>}

\* VenueDeduper.component_expansions; words is list(name_expanded_words)
VenueDeduper_component_expansions(address, words) ==
    IF Not(address, NAME) THEN <<>>
    ELSE LET expansions == AddressDeduper_component_expansions(address)
         IN  IF expansions = <<>> THEN <<>>
             ELSE <<words>> \o expansions

\* cls.component_expansions(address)
component_expansions(c, address, words) ==
    IF c = "VenueDeduper"
    THEN VenueDeduper_component_expansions(address, words)
    ELSE AddressDeduper_component_expansions(address)

RECURSIVE Product(_)
\* itertools.product(*lists): the last list turns fastest
Product(lists) ==
    IF lists = <<>> THEN << <<>> >>
    ELSE LET rest == Product(Tail(lists))
             n == Len(rest)
         IN  [i \in 1..(Len(lists[1]) * n) |->
                 <<lists[1][((i - 1) \div n) + 1]>> \o rest[((i - 1) % n) + 1]]

\* any(address_expansions)
AnyNonEmpty(lists) == \E i \in DOMAIN lists : lists[i] # <<>>

near_dupe_hashes_no_origin_check(c, address, geohash_precision, words) ==
    LET address_expansions == component_expansions(c, address, words)
    IN  IF IsNone(address, LATITUDE) \/ IsNone(address, LONGITUDE)
        THEN <<>>
        ELSE IF address[LATITUDE] >= Lat90 \/ address[LATITUDE] <= -Lat90
                \/ ~AnyNonEmpty(address_expansions)
        THEN <<>>
        ELSE LET geo == SubSeq(geohash_encode(address[LATITUDE], address[LONGITUDE]),
                               1, geohash_precision)
                 geohash_neighbors == <<geo>> \o neighbors(geo)
                 product == Product(<<geohash_neighbors>> \o address_expansions)
             IN  [i \in DOMAIN product |-> Join(<<"|">>, product[i])]

\* cls.near_dupe_hashes(address, geohash_precision): the keys yielded
near_dupe_hashes(c, address, geohash_precision, words) ==
    LET address_expansions == component_expansions(c, address, words)
    IN  IF IsNone(address, LATITUDE) \/ IsNone(address, LONGITUDE)
        THEN <<>>
        ELSE IF (isclose(address[LATITUDE], 0) /\ isclose(address[LONGITUDE], 0))
                \/ address[LATITUDE] >= Lat90 \/ address[LATITUDE] <= -Lat90
                \/ ~AnyNonEmpty(address_expansions)
        THEN <<>>
        ELSE LET geo == SubSeq(geohash_encode(address[LATITUDE], address[LONGITUDE]),
                               1, geohash_precision)
                 geohash_neighbors == <<geo>> \o neighbors(geo)
                 product == Product(<<geohash_neighbors>> \o address_expansions)
             IN  [i \in DOMAIN product |-> Join(<<"|">>, product[i])]

\* The precision a call uses: the argument, or the parameter's default.
PrecisionOf(c, arg) == IF arg = <<>> THEN near_dupe_hashes_defaults(c) ELSE arg[1]

(***************************************************************************)
(* NameDeduper                                                             *)
(***************************************************************************)

\* NameDeduper.default_dupe_threshold, 0.9, in hundredths
default_dupe_threshold == 90

RECURSIVE SplitLines(_, _, _)
\* The lines of str (the newlines dropped), from position i on.
SplitLines(str, i, cur) ==
    IF i > Len(str) THEN <<cur>>
    ELSE IF str[i] = "\n"
         THEN <<cur>> \o SplitLines(str, i + 1, <<>>)
         ELSE SplitLines(str, i + 1, Append(cur, str[i]))

\* paren_regex.sub(u'', line) on a line: '\(.*\)' matches from the first
\* "(" that has a ")" after it to the last ")" of the line.
ParenSubLine(line) ==
    LET opens == {i \in DOMAIN line : line[i] = "("}
        closes == {i \in DOMAIN line : line[i] = ")"}
        matching == {i \in opens : \E j \in closes : j > i}
    IN  IF matching = {} THEN line
        ELSE LET first == CHOOSE i \in matching : \A k \in matching : i <= k
                 last == CHOOSE j \in closes : \A k \in closes : j >= k
             IN  SubSeq(line, 1, first - 1) \o SubSeq(line, last + 1, Len(line))

\* paren_regex.sub(u'', str): "." does not match a newline
paren_regex_sub(str) ==
    LET lines == SplitLines(str, 1, <<>>)
    IN  Join(<<"\n">>, [i \in DOMAIN lines |-> ParenSubLine(lines[i])])

\* NameDeduper.content_tokens(s), ignore being cls.ignore_parentheticals.
\* The result of the substitution is bound to a local that is not read.
content_tokens(str, ignore) ==
    LET substituted == IF ignore THEN paren_regex_sub(str) ELSE str
    IN  tokenize(Lower(str))

\* NameDeduper.compare_in_memory: the soft-TFIDF similarity of the two
\* token lists that lieu.similarity computes from the corpus model.
compare_in_memory(tokens1, tokens2, model) == model[1]

(***************************************************************************)
(* VenueDeduper: the pairwise decision                                     *)
(***************************************************************************)

is_exact_name_dupe(name1, name2) == component_equals(name1, name2, ADDRESS_NAME)

VenueDeduper_is_dupe_address_first(r1, r2, model, name_dupe_threshold, wu) ==
    LET same_address == is_address_dupe(r1, r2)
    IN  IF same_address # "True" THEN same_address
        ELSE IF Not(r1, NAME) \/ Not(r2, NAME) THEN "None"
        ELSE IF wu /\ ~is_sub_building_dupe(r1, r2) THEN "False"
        ELSE PyAnd(same_address,
                   is_exact_name_dupe(r1[NAME], r2[NAME])
                   \/ (model # <<>> /\ model[1] >= name_dupe_threshold))

VenueDeduper_is_dupe_bool_address(r1, r2, model, name_dupe_threshold, wu) ==
    IF Not(r1, NAME) \/ Not(r2, NAME) THEN "None"
    ELSE IF is_address_dupe(r1, r2) # "True" THEN "False"
    ELSE IF wu /\ ~is_sub_building_dupe(r1, r2) THEN "False"
    ELSE PyBool(is_exact_name_dupe(r1[NAME], r2[NAME])
                \/ (model # <<>> /\ model[1] >= name_dupe_threshold))

VenueDeduper_is_dupe_ignoring_unit(r1, r2, model, name_dupe_threshold, wu) ==
    IF Not(r1, NAME) \/ Not(r2, NAME) THEN "None"
    ELSE LET same_address == is_address_dupe(r1, r2)
         IN  IF same_address # "True" THEN same_address
             ELSE PyAnd(same_address,
                        is_exact_name_dupe(r1[NAME], r2[NAME])
                        \/ (model # <<>> /\ model[1] >= name_dupe_threshold))

VenueDeduper_is_dupe(r1, r2, model, name_dupe_threshold, wu) ==
    IF Not(r1, NAME) \/ Not(r2, NAME) THEN "None"
    ELSE LET same_address == is_address_dupe(r1, r2)
         IN  IF same_address # "True" THEN same_address
             ELSE IF wu /\ ~is_sub_building_dupe(r1, r2) THEN "False"
             ELSE LET exact == is_exact_name_dupe(r1[NAME], r2[NAME])
                      same_name ==
                          IF model # <<>> /\ ~exact
                          THEN compare_in_memory(
                                   content_tokens(r1[NAME], ignore_parentheticals),
                                   content_tokens(r2[NAME], ignore_parentheticals),
                                   model) >= name_dupe_threshold
                          ELSE exact
                  IN  PyAnd(same_address, same_name)

(***************************************************************************)
(* The calls.  Each behaviour draws the records (and, for content_tokens,  *)
(* the string and the configuration) and makes calls on them; the          *)
(* arguments that belong to one call are chosen by its action.             *)
(***************************************************************************)

\* How many streets, house numbers and names of the catalogues below the
\* records are drawn from.
NumStreets == 3

NumHouseNumbers == 3

NumNames == 3

\* Longest string given to content_tokens.
MaxStrLen == 5

StreetCatalogue == <<<<"A"," ","S","t">>, <<"B"," ","S","t">>, <<"A"," ","S","t","r","e","e","t">>, <<"A"," "," ","S","t">>>>

HouseNumberCatalogue == <<<<"N","o"," ","1","2">>, <<"N","o","1","2">>, <<"1","4">>, <<"n","o"," "," ","1","2">>>>

UnitCatalogue == <<<<"A","p","t"," ","2">>, <<"A","p","t"," ","3">>, <<"A","p","a","r","t","m","e","n","t"," ","2">>>>

FloorCatalogue == <<<<"1">>, <<"2">>, <<"F","l"," ","1">>>>

NameCatalogue == <<<<"C","a","f","e">>, <<"K","a","f","e">>, <<"S","t"," ","B","a","r">>, <<"S","a","i","n","t"," ","B","a","r">>>>

First(catalogue, n) == {catalogue[i] : i \in 1..n}

\* The values of a field: the empty string and the catalogue's first ones.
Streets == {<<>>} \cup First(StreetCatalogue, NumStreets)

HouseNumbers == {<<>>} \cup First(HouseNumberCatalogue, NumHouseNumbers)

Units == {<<>>} \cup Range(UnitCatalogue)

Floors == First(FloorCatalogue, 2)

Names == {<<>>} \cup First(NameCatalogue, NumNames)

\* compare_in_memory's results on either side of the threshold, in hundredths.
Similarities == {default_dupe_threshold - 1, default_dupe_threshold}

\* Records with the fields the address decisions read.
AddressRecords ==
    {st @@ hn @@ un @@ fl :
        st \in Field(STREET, Streets), hn \in Field(HOUSE_NUMBER, HouseNumbers),
        un \in Field(UNIT, Units), fl \in Field(FLOOR, Floors)}

\* Before any call: the optional arguments at their defaults, nothing returned.
NoCall ==
    /\ with_unit = TRUE
    /\ tfidf = <<>>
    /\ precision = <<>>
    /\ cls = "AddressDeduper"
    /\ pc = "start"
    /\ ret = "unset"
    /\ gen1 = "none"
    /\ gen2 = "none"
    /\ keys1 = <<>>
    /\ keys2 = <<>>
    /\ pending1 = <<>>
    /\ pending2 = <<>>
    /\ tokens = <<>>

Init ==
    /\ a1 \in AddressRecords
    /\ a2 \in AddressRecords
    /\ s = <<>>
    /\ ignore_parentheticals = FALSE
    /\ NoCall

\* AddressDeduper.is_address_dupe(a1, a2)
IsAddressDupe ==
    /\ pc = "start"
    /\ pc' = "is_address_dupe"
    /\ ret' = is_address_dupe(a1, a2)
    /\ UNCHANGED <<inputs, generators, tokens>>

\* AddressDeduper.is_sub_building_dupe(a1, a2)
IsSubBuildingDupe ==
    /\ pc = "start"
    /\ pc' = "is_sub_building_dupe"
    /\ ret' = PyBool(is_sub_building_dupe(a1, a2))
    /\ UNCHANGED <<inputs, generators, tokens>>

\* AddressDeduper.is_dupe(a1, a2, with_unit)
AddressIsDupe ==
    /\ pc = "start"
    /\ \E wu \in BOOLEAN :
        /\ with_unit' = wu
        /\ ret' = AddressDeduper_is_dupe(a1, a2, wu)
    /\ pc' = "AddressDeduper.is_dupe"
    /\ UNCHANGED <<a1, a2, tfidf, precision, cls, s, ignore_parentheticals,
                   generators, tokens>>

Next == IsAddressDupe \/ IsSubBuildingDupe \/ AddressIsDupe

Spec == Init /\ [][Next]_vars

(***************************************************************************)
(* Venue decisions: records that also hold a name.                         *)
(***************************************************************************)

VenueRecords ==
    {nm @@ st @@ hn @@ un @@ fl :
        nm \in Field(NAME, Names),
        st \in Field(STREET, First(StreetCatalogue, 2)),
        hn \in Field(HOUSE_NUMBER, First(HouseNumberCatalogue, 1)),
        un \in Field(UNIT, First(UnitCatalogue, 2)),
        fl \in Field(FLOOR, First(FloorCatalogue, 1))}

InitVenue ==
    /\ a1 \in VenueRecords
    /\ a2 \in VenueRecords
    /\ s = <<>>
    /\ ignore_parentheticals = FALSE
    /\ NoCall

\* VenueDeduper.is_dupe(a1, a2, tfidf, name_dupe_threshold, with_unit), the
\* threshold at its default
VenueIsDupe ==
    /\ pc = "start"
    /\ \E wu \in BOOLEAN, tf \in {<<>>} \cup {<<sm>> : sm \in Similarities} :
        /\ with_unit' = wu
        /\ tfidf' = tf
        /\ ret' = VenueDeduper_is_dupe(a1, a2, tf, default_dupe_threshold, wu)
    /\ pc' = "VenueDeduper.is_dupe"
    /\ UNCHANGED <<a1, a2, precision, cls, s, ignore_parentheticals,
                   generators, tokens>>

NextVenue == VenueIsDupe \/ AddressIsDupe

SpecVenue == InitVenue /\ [][NextVenue]_vars

(***************************************************************************)
(* Blocking: near_dupe_hashes on a record and on a second one, with the    *)
(* same deduper and precision, as a caller bucketing a corpus does.  The   *)
(* caller may take the keys of the two generators in any order and need    *)
(* not exhaust either.  The records are not changed while a generator      *)
(* lives.                                                                  *)
(***************************************************************************)

\* Latitudes: absent, the poles and beyond, the equator, a valid one.
Latitudes == {-Lat90, 0, 8192100, Lat90, Lat90 + 5}

Longitudes == {0, 2048007}

\* Coordinates of the second record: in the cell of <<8192100, 2048007>> at
\* precision 7, in a cell next to it, and further away.
NearCoordinates == {<<8192100, 2048007>>, <<8192100 + 8192, 2048007 + 4096>>,
                    <<8192100 + 3 * 32768, 2048007>>}

HashRecords ==
    {nm @@ st @@ hn @@ la @@ lo :
        nm \in Field(NAME, {NameCatalogue[4]}),
        st \in Field(STREET, {<<>>, StreetCatalogue[1]}),
        hn \in Field(HOUSE_NUMBER, First(HouseNumberCatalogue, 2)),
        la \in Field(LATITUDE, Latitudes),
        lo \in Field(LONGITUDE, Longitudes)}

NearRecords ==
    {(NAME :> NameCatalogue[1]) @@ (STREET :> StreetCatalogue[1])
     @@ (HOUSE_NUMBER :> HouseNumberCatalogue[2])
     @@ (LATITUDE :> co[1]) @@ (LONGITUDE :> co[2]) :
        co \in NearCoordinates}

\* The geohash_precision arguments: none, or VenueDeduper's constant.
Precisions == {<<>>, <<VenueDeduper_DEFAULT_GEOHASH_PRECISION>>}

InitHash ==
    /\ a1 \in HashRecords
    /\ a2 \in NearRecords
    /\ s = <<>>
    /\ ignore_parentheticals = FALSE
    /\ NoCall

\* g1 = c.near_dupe_hashes(a1) or c.near_dupe_hashes(a1, p): the call makes
\* the generator and runs nothing of the body
NearDupeHashes1 ==
    /\ gen1 = "none"
    /\ \E c \in {"AddressDeduper", "VenueDeduper"}, p \in Precisions :
        /\ cls' = c
        /\ precision' = p
    /\ gen1' = "created"
    /\ UNCHANGED <<a1, a2, with_unit, tfidf, s, ignore_parentheticals, pc, ret,
                   gen2, keys1, keys2, pending1, pending2, tokens>>

\* The first next(g1): the body runs from its start (lines 82-92) to the
\* first yield, or returns.  itertools.product reads its arguments when it
\* is made, so the keys to come are fixed from here on.
Start1 ==
    /\ gen1 = "created"
    /\ \E words \in NameListings(cls, a1) :
        LET all == near_dupe_hashes(cls, a1, PrecisionOf(cls, precision), words)
        IN  IF all = <<>>
            THEN gen1' = "closed" /\ UNCHANGED <<keys1, pending1>>
            ELSE /\ gen1' = "suspended"
                 /\ keys1' = <<Head(all)>>
                 /\ pending1' = Tail(all)
    /\ UNCHANGED <<inputs, pc, ret, gen2, keys2, pending2, tokens>>

\* A later next(g1): the loop of lines 92-93 yields the next key or ends.
Resume1 ==
    /\ gen1 = "suspended"
    /\ IF pending1 = <<>>
       THEN gen1' = "closed" /\ UNCHANGED <<keys1, pending1>>
       ELSE /\ keys1' = Append(keys1, Head(pending1))
            /\ pending1' = Tail(pending1)
            /\ UNCHANGED gen1
    /\ UNCHANGED <<inputs, pc, ret, gen2, keys2, pending2, tokens>>

\* g2 = the same call on the second record
NearDupeHashes2 ==
    /\ gen1 # "none"
    /\ gen2 = "none"
    /\ gen2' = "created"
    /\ UNCHANGED <<inputs, pc, ret, gen1, keys1, keys2, pending1, pending2, tokens>>

\* The first next(g2)
Start2 ==
    /\ gen2 = "created"
    /\ \E words \in NameListings(cls, a2) :
        LET all == near_dupe_hashes(cls, a2, PrecisionOf(cls, precision), words)
        IN  IF all = <<>>
            THEN gen2' = "closed" /\ UNCHANGED <<keys2, pending2>>
            ELSE /\ gen2' = "suspended"
                 /\ keys2' = <<Head(all)>>
                 /\ pending2' = Tail(all)
    /\ UNCHANGED <<inputs, pc, ret, gen1, keys1, pending1, tokens>>

\* A later next(g2)
Resume2 ==
    /\ gen2 = "suspended"
    /\ IF pending2 = <<>>
       THEN gen2' = "closed" /\ UNCHANGED <<keys2, pending2>>
       ELSE /\ keys2' = Append(keys2, Head(pending2))
            /\ pending2' = Tail(pending2)
            /\ UNCHANGED gen2
    /\ UNCHANGED <<inputs, pc, ret, gen1, keys1, pending1, tokens>>

NextHash ==
    NearDupeHashes1 \/ Start1 \/ Resume1 \/ NearDupeHashes2 \/ Start2 \/ Resume2

SpecHash == InitHash /\ [][NextHash]_vars

(***************************************************************************)
(* NameDeduper.content_tokens on strings of at most MaxStrLen characters.  *)
(***************************************************************************)

\* A letter, capitals (one beyond ASCII), two kinds of whitespace (the
\* space and the vertical tab) and the parentheses.
Alphabet == {"a", "B", "\\xc9", " ", "\\x0b", "(", ")"}

Strings == UNION {[1..n -> Alphabet] : n \in 0..MaxStrLen}

InitTokens ==
    /\ a1 = NoFields
    /\ a2 = NoFields
    /\ s \in Strings
    /\ ignore_parentheticals \in BOOLEAN
    /\ NoCall

ContentTokens ==
    /\ pc = "start"
    /\ pc' = "content_tokens"
    /\ tokens' = content_tokens(s, ignore_parentheticals)
    /\ UNCHANGED <<inputs, ret, generators>>

NextTokens == ContentTokens

SpecTokens == InitTokens /\ [][NextTokens]_vars

(***************************************************************************)
(* Properties                                                              *)
(***************************************************************************)

\* The field is missing from the record or is the empty string.
Lacks(a, key) == key \notin DOMAIN a \/ a[key] = <<>>

Boolean == {"True", "False"}

\* Three-valued AND in which a definite False wins over Indeterminate.
K3And(x, y) ==
    IF x = "False" \/ y = "False" THEN "False"
    ELSE IF x = "None" \/ y = "None" THEN "None"
    ELSE "True"

\* C2: is_address_dupe is Indeterminate whenever street or house_number is
\* missing or empty in either record; with all four present it is a plain
\* boolean, true exactly when the streets are component-equal and the
\* house numbers are component-equal.
C2_AddressDupe ==
    pc = "is_address_dupe" =>
        IF Lacks(a1, STREET) \/ Lacks(a2, STREET)
           \/ Lacks(a1, HOUSE_NUMBER) \/ Lacks(a2, HOUSE_NUMBER)
        THEN ret = "None"
        ELSE /\ ret \in Boolean
             /\ ret = "True" <=>
                    /\ component_equals(a1[STREET], a2[STREET], ADDRESS_STREET)
                    /\ component_equals(a1[HOUSE_NUMBER], a2[HOUSE_NUMBER],
                                        ADDRESS_HOUSE_NUMBER)

\* All four values present and differently written, the decision is True.
C2_Witness ==
    /\ pc = "is_address_dupe"
    /\ ~Lacks(a1, STREET) /\ ~Lacks(a2, STREET)
    /\ ~Lacks(a1, HOUSE_NUMBER) /\ ~Lacks(a2, HOUSE_NUMBER)
    /\ a1[STREET] # a2[STREET]
    /\ a1[HOUSE_NUMBER] # a2[HOUSE_NUMBER]
    /\ ret = "True"

\* C3: AddressDeduper.is_dupe is Indeterminate whenever is_address_dupe is,
\* whatever is_sub_building_dupe says; when is_address_dupe is a boolean it
\* is is_address_dupe AND (NOT with_unit OR is_sub_building_dupe).
C3_AddressIsDupe ==
    pc = "AddressDeduper.is_dupe" =>
        IF is_address_dupe(a1, a2) = "None"
        THEN ret = "None"
        ELSE ret = PyBool(/\ is_address_dupe(a1, a2) = "True"
                          /\ (~with_unit \/ is_sub_building_dupe(a1, a2)))

\* An Indeterminate address with a false sub-building decision, with_unit set.
C3_Witness ==
    /\ pc = "AddressDeduper.is_dupe"
    /\ with_unit
    /\ is_address_dupe(a1, a2) = "None"
    /\ ~is_sub_building_dupe(a1, a2)
    /\ ret = "None"

\* A field passes when both records lack it, or both have it and the two
\* values are component-equal.
FieldPasses(key, component) ==
    \/ Lacks(a1, key) /\ Lacks(a2, key)
    \/ /\ ~Lacks(a1, key) /\ ~Lacks(a2, key)
       /\ component_equals(a1[key], a2[key], component)

\* C4: is_sub_building_dupe is a boolean, true exactly when unit passes and
\* floor passes; so it is false when exactly one record has a unit, or
\* exactly one has a floor.
C4_SubBuildingDupe ==
    pc = "is_sub_building_dupe" =>
        /\ ret \in Boolean
        /\ ret = "True" <=> FieldPasses(UNIT, ADDRESS_UNIT) /\ FieldPasses(FLOOR, ADDRESS_LEVEL)
        /\ (Lacks(a1, UNIT) # Lacks(a2, UNIT)) => ret = "False"
        /\ (Lacks(a1, FLOOR) # Lacks(a2, FLOOR)) => ret = "False"

\* Only the first record has a unit, the floors are the same: False.
C4_Witness ==
    /\ pc = "is_sub_building_dupe"
    /\ ~Lacks(a1, UNIT) /\ Lacks(a2, UNIT)
    /\ ~Lacks(a1, FLOOR) /\ ~Lacks(a2, FLOOR) /\ a1[FLOOR] = a2[FLOOR]
    /\ ret = "False"

\* C5: VenueDeduper.is_dupe is Indeterminate whenever a name is missing or
\* empty, whatever the address decision, with_unit and tfidf are; and with
\* both names present it is Indeterminate whenever is_address_dupe is, also
\* when the names match exactly.
C5_VenueIndeterminate ==
    pc = "VenueDeduper.is_dupe" =>
        /\ (Lacks(a1, NAME) \/ Lacks(a2, NAME)) => ret = "None"
        /\ (~Lacks(a1, NAME) /\ ~Lacks(a2, NAME) /\ is_address_dupe(a1, a2) = "None")
               => ret = "None"

\* A name is empty while the address matches: Indeterminate.
C5_Witness ==
    /\ pc = "VenueDeduper.is_dupe"
    /\ NAME \in DOMAIN a1 /\ a1[NAME] = <<>>
    /\ ~Lacks(a2, NAME)
    /\ is_address_dupe(a1, a2) = "True"
    /\ ret = "None"

\* The names match: exactly, or by similarity under a supplied model.
NamesMatch ==
    \/ is_exact_name_dupe(a1[NAME], a2[NAME])
    \/ tfidf # <<>> /\ tfidf[1] >= default_dupe_threshold

\* C6: with both names present, the address a dupe and the names matching,
\* VenueDeduper.is_dupe with with_unit is False when is_sub_building_dupe
\* is false, and without with_unit it is True whatever unit and floor are.
C6_VenueUnit ==
    (/\ pc = "VenueDeduper.is_dupe"
     /\ ~Lacks(a1, NAME) /\ ~Lacks(a2, NAME)
     /\ is_address_dupe(a1, a2) = "True"
     /\ NamesMatch)
        => /\ (with_unit /\ ~is_sub_building_dupe(a1, a2)) => ret = "False"
           /\ ~with_unit => ret = "True"

\* Names matching by similarity only, a unit on one side only: with_unit
\* makes the decision False.
C6_Witness ==
    /\ pc = "VenueDeduper.is_dupe"
    /\ ~Lacks(a1, NAME) /\ ~Lacks(a2, NAME)
    /\ is_address_dupe(a1, a2) = "True"
    /\ ~is_exact_name_dupe(a1[NAME], a2[NAME])
    /\ NamesMatch
    /\ with_unit
    /\ Lacks(a1, UNIT) /\ ~Lacks(a2, UNIT)
    /\ ret = "False"

\* The operands of the two is_dupe methods, as three-valued decisions.
NameOperand == IF Lacks(a1, NAME) \/ Lacks(a2, NAME) THEN "None" ELSE "True"

UnitOperand == PyBool(~with_unit \/ is_sub_building_dupe(a1, a2))

NameMatchOperand ==
    IF Lacks(a1, NAME) \/ Lacks(a2, NAME) THEN "True" ELSE PyBool(NamesMatch)

\* C9 as stated: both is_dupe methods are the three-valued AND of their
\* operands in which Indeterminate is absorbing unless another operand is
\* definitively false, when the result is false.
C9_Original ==
    /\ pc = "AddressDeduper.is_dupe"
           => ret = K3And(is_address_dupe(a1, a2), UnitOperand)
    /\ pc = "VenueDeduper.is_dupe"
           => ret = K3And(NameOperand,
                          K3And(is_address_dupe(a1, a2),
                                K3And(UnitOperand, NameMatchOperand)))

\* C9 amended: the operands are taken in order (name presence, address,
\* sub-building, names); an Indeterminate operand is absorbing whatever the
\* operands after it are, also when one of them is definitively false, and
\* with no Indeterminate operand the result is the AND of the operands.
C9_ShortCircuit ==
    /\ pc = "AddressDeduper.is_dupe"
           => ret = IF is_address_dupe(a1, a2) = "None" THEN "None"
                    ELSE K3And(is_address_dupe(a1, a2), UnitOperand)
    /\ pc = "VenueDeduper.is_dupe"
           => ret = IF NameOperand = "None" THEN "None"
                    ELSE IF is_address_dupe(a1, a2) = "None" THEN "None"
                    ELSE K3And(is_address_dupe(a1, a2),
                               K3And(UnitOperand, NameMatchOperand))

\* A missing name, present addresses that differ: Indeterminate, not False.
C9_Witness ==
    /\ pc = "VenueDeduper.is_dupe"
    /\ NameOperand = "None"
    /\ is_address_dupe(a1, a2) = "False"
    /\ ret = "None"

\* The coordinates of a record allow a blocking key.
ValidCoordinates(a) ==
    /\ LATITUDE \in DOMAIN a
    /\ LONGITUDE \in DOMAIN a
    /\ -Lat90 < a[LATITUDE] /\ a[LATITUDE] < Lat90
    /\ ~(a[LATITUDE] = 0 /\ a[LONGITUDE] = 0)

\* C1: near_dupe_hashes yields a key only for a record with both
\* coordinates, a latitude strictly between -90 and 90 and not at (0, 0);
\* for every other record it yields nothing and ends without an error,
\* whatever the expansions are.
C1_NoKeyWithoutCoordinates ==
    /\ ~ValidCoordinates(a1) =>
           /\ keys1 = <<>> /\ pending1 = <<>>
           /\ gen1 \in {"none", "created", "closed"}
    /\ ~ValidCoordinates(a2) =>
           /\ keys2 = <<>> /\ pending2 = <<>>
           /\ gen2 \in {"none", "created", "closed"}

\* A record at the pole with a street and a house number: the generator
\* has ended and has yielded no key.
C1_Witness ==
    /\ gen1 = "closed"
    /\ ~Lacks(a1, STREET) /\ ~Lacks(a1, HOUSE_NUMBER)
    /\ LATITUDE \in DOMAIN a1 /\ a1[LATITUDE] = Lat90
    /\ LONGITUDE \in DOMAIN a1
    /\ keys1 = <<>>

\* The cell id of a key: what precedes its first delimiter.
CellPart(key) ==
    SubSeq(key, 1, (CHOOSE i \in DOMAIN key :
                        key[i] = "|" /\ \A j \in 1..(i - 1) : key[j] # "|") - 1)

\* C8: called without a precision, VenueDeduper.near_dupe_hashes builds its
\* keys from cells of VenueDeduper's own default precision, 6.
C8_VenueDefaultPrecision ==
    (gen1 # "none" /\ cls = "VenueDeduper" /\ precision = <<>>)
        => \A i \in DOMAIN keys1 :
               Len(CellPart(keys1[i])) = VenueDeduper_DEFAULT_GEOHASH_PRECISION

\* The cell of a record at the precision of the call.
CellOf(a) ==
    SubSeq(geohash_encode(a[LATITUDE], a[LONGITUDE]), 1, PrecisionOf(cls, precision))

\* C10: two records with valid coordinates in the same cell or in adjacent
\* cells that is_address_dupe finds to be dupes share a blocking key, once
\* both generators are exhausted.
C10_BlockingComplete ==
    (/\ gen1 = "closed" /\ gen2 = "closed"
     /\ cls = "AddressDeduper"
     /\ ValidCoordinates(a1) /\ ValidCoordinates(a2)
     /\ CellOf(a2) \in {CellOf(a1)} \cup Range(neighbors(CellOf(a1)))
     /\ is_address_dupe(a1, a2) = "True")
        => Range(keys1) \cap Range(keys2) # {}

\* C7: content_tokens gives the whitespace tokens of the lower-cased string,
\* the parentheticals removed first when ignore_parentheticals is set.
C7_ContentTokens ==
    pc = "content_tokens" =>
        tokens = IF ignore_parentheticals
                 THEN tokenize(Lower(paren_regex_sub(s)))
                 ELSE tokenize(Lower(s))

====
